---- MODULE Spec2Model ----
(***************************************************************************)
(* Model of the analytical core of frac_diff.py: is_negative_integer and   *)
(* analytical_frac_diff.  Numbers are exact: a value is a record           *)
(* [n, d, s] standing for (n/d) * sqrt(pi)^s with d > 0, gcd(n, d) = 1 and *)
(* s = 0 when n = 0.  Powers and orders are multiples of 1/2, for which    *)
(* the Gamma function has the closed values (x-1)! and                     *)
(* rational * sqrt(pi).  Floating-point rounding is not modelled.          *)
(***************************************************************************)
EXTENDS Integers, Sequences, FiniteSets, TLC

VARIABLES pc, const, power, i, n, args, neg, branch, result, error, depth, first

vars == <<pc, const, power, i, n, args, neg, branch, result, error, depth, first>>

\* ---- bounds of the explored inputs (in halves: m stands for m/2) ----
MaxConst == 2
MaxPow == 3
MaxOrd == 3

\* ---- exact arithmetic ----
Abs(x) == IF x < 0 THEN -x ELSE x

RECURSIVE Gcd(_, _)
Gcd(x, y) == IF y = 0 THEN x ELSE Gcd(y, x % y)

Norm(num, den, sp) ==
    IF num = 0 THEN [n |-> 0, d |-> 1, s |-> 0]
    ELSE LET g == Gcd(Abs(num), Abs(den))
             sg == IF den < 0 THEN -1 ELSE 1
         IN [n |-> (sg * num) \div g, d |-> (sg * den) \div g, s |-> sp]

R(num, den) == Norm(num, den, 0)
Zero == R(0, 1)
One == R(1, 1)

Mul(x, y) == Norm(x.n * y.n, x.d * y.d, x.s + y.s)
Div(x, y) == Norm(x.n * y.d, x.d * y.n, x.s - y.s)
Add(x, y) == Norm(x.n * y.d + y.n * x.d, x.d * y.d, 0)
Sub(x, y) == Norm(x.n * y.d - y.n * x.d, x.d * y.d, 0)
Neg(x) == [x EXCEPT !.n = -x.n]

\* float.is_integer(): no fractional part
is_integer(x) == x.n % x.d = 0

\* int(a): truncation towards zero
int(x) == IF x.n >= 0 THEN x.n \div x.d ELSE -((-x.n) \div x.d)

\* len(range(m))
RangeLen(m) == IF m > 0 THEN m ELSE 0
RangeLenPlusOne(m) == IF m + 1 > 0 THEN m + 1 ELSE 0

\* ---- math.gamma ----
\* math.gamma raises ValueError("math domain error") at 0, -1, -2, ...
GammaDomainError(x) == is_integer(x) /\ x.n <= 0

RECURSIVE gamma(_)
gamma(x) ==
    IF GammaDomainError(x) THEN Zero
    ELSE IF x = One THEN One
    ELSE IF x = R(1, 2) THEN [n |-> 1, d |-> 1, s |-> 1]
    ELSE IF x.n > x.d THEN Mul(Sub(x, One), gamma(Sub(x, One)))
    ELSE Div(gamma(Add(x, One)), x)

\* ---- is_negative_integer ----
is_negative_integer_or_zero(x) == is_integer(x) /\ x.n <= 0
is_negative_integer_below_minus_one(x) == is_integer(x) /\ x.n < -x.d

is_negative_integer(x) == is_integer(x) /\ x.n < 0

\* ---- the inputs ----
Consts == {R(m, 2) : m \in -MaxConst..MaxConst}
Powers == {R(m, 2) : m \in -(2 * MaxPow)..(2 * MaxPow)}
Orders == {R(m, 2) : m \in -(2 * MaxOrd)..(2 * MaxOrd)}

NoArgs == [const |-> Zero, power |-> Zero, a |-> Zero]
NoResult == <<Zero, Zero>>

Init ==
    /\ pc = "idle"
    /\ const = Zero
    /\ power = Zero
    /\ i = 0
    /\ n = 0
    /\ args = NoArgs
    /\ neg = <<FALSE, FALSE>>
    /\ branch = "none"
    /\ result = NoResult
    /\ error = "none"
    /\ depth = 0
    /\ first = [args |-> NoArgs, result |-> NoResult, branch |-> "none"]

\* ---- analytical_frac_diff ----
\* line 20: the condition of the first branch
EitherNegative(nk, nkma) == nk \/ nkma
BothNegative(nk, nkma) == nk /\ nkma

\* line 36: the condition of the second branch
OnlyPowerNegative(nk, nkma) == nk
OneNegative(nk, nkma) == nk \/ nkma

\* line 37: the placeholder
PlaceholderShifted == <<Zero, Sub(args'.power, args'.a)>>
Placeholder == <<Zero, Zero>>

\* line 42: the general formula
GeneralInverted(c, k, o) ==
    <<Div(Mul(c, gamma(Add(Sub(k, o), One))), gamma(Add(k, One))), Sub(k, o)>>
GeneralPowerPlus(c, k, o) ==
    <<Div(Mul(c, gamma(Add(k, One))), gamma(Add(Sub(k, o), One))), Add(k, o)>>
General(c, k, o) ==
    <<Div(Mul(c, gamma(Add(k, One))), gamma(Add(Sub(k, o), One))), Sub(k, o)>>

\* lines 27 and 32: the number of loop iterations
DiffCountPlusOne(o) == RangeLenPlusOne(int(o))
DiffCount(o) == RangeLen(int(o))
IntCount(o) == RangeLen(-int(o))

\* lines 20-42 up to the first loop iteration or the return
Enter(c, k, o) ==
    LET nk == is_negative_integer(k)
        nkma == is_negative_integer(Sub(k, o))
    IN /\ args' = [const |-> c, power |-> k, a |-> o]
       /\ neg' = <<nk, nkma>>
       /\ i' = 0
       /\ IF BothNegative(nk, nkma)
          THEN /\ branch' = "integer"
               /\ const' = c
               /\ power' = k
               /\ result' = NoResult
               /\ error' = "none"
               /\ IF o.n >= 0
                  THEN pc' = "differentiate" /\ n' = DiffCount(o)
                  ELSE pc' = "integrate" /\ n' = IntCount(o)
          ELSE /\ const' = c
               /\ power' = k
               /\ n' = 0
               /\ pc' = "done"
               /\ IF OneNegative(nk, nkma)
                  THEN /\ branch' = "placeholder"
                       /\ result' = Placeholder
                       /\ error' = "none"
                  ELSE /\ branch' = "general"
                       /\ IF \/ GammaDomainError(Add(k, One))
                             \/ GammaDomainError(Add(Sub(k, o), One))
                          THEN result' = NoResult /\ error' = "ValueError"
                          ELSE result' = General(c, k, o) /\ error' = "none"

\* a caller invokes analytical_frac_diff(c, k, o)
Call ==
    /\ pc = "idle"
    /\ \E c \in Consts, k \in Powers, o \in Orders :
          /\ Enter(c, k, o)
          /\ first' = [args |-> [const |-> c, power |-> k, a |-> o],
                       result |-> NoResult, branch |-> "none"]
    /\ depth' = 1

\* lines 27-29: one iteration of the differentiation loop
DifferentiateStepUp ==
    /\ pc = "differentiate"
    /\ i < n
    /\ const' = Mul(const, power)
    /\ power' = Add(power, One)
    /\ i' = i + 1
    /\ UNCHANGED <<pc, n, args, neg, branch, result, error, depth, first>>
DifferentiateStep ==
    /\ pc = "differentiate"
    /\ i < n
    /\ const' = Mul(const, power)
    /\ power' = Sub(power, One)
    /\ i' = i + 1
    /\ UNCHANGED <<pc, n, args, neg, branch, result, error, depth, first>>

\* lines 32-34: one iteration of the integration loop
IntegrateStepNoShift ==
    /\ pc = "integrate"
    /\ i < n
    /\ IF power.n = 0
       THEN /\ error' = "ZeroDivisionError"
            /\ pc' = "done"
            /\ UNCHANGED <<const, power, i>>
       ELSE /\ const' = Div(const, power)
            /\ power' = Add(power, One)
            /\ i' = i + 1
            /\ UNCHANGED <<pc, error>>
    /\ UNCHANGED <<n, args, neg, branch, result, depth, first>>
IntegrateStep ==
    /\ pc = "integrate"
    /\ i < n
    /\ IF Add(power, One).n = 0
       THEN /\ error' = "ZeroDivisionError"
            /\ pc' = "done"
            /\ UNCHANGED <<const, power, i>>
       ELSE /\ const' = Div(const, Add(power, One))
            /\ power' = Add(power, One)
            /\ i' = i + 1
            /\ UNCHANGED <<pc, error>>
    /\ UNCHANGED <<n, args, neg, branch, result, depth, first>>

\* line 35: the loop is exhausted
Return ==
    /\ pc \in {"differentiate", "integrate"}
    /\ i = n
    /\ result' = <<const, power>>
    /\ pc' = "done"
    /\ UNCHANGED <<const, power, i, n, args, neg, branch, error, depth, first>>

\* differentiate(*differentiate(c, k, a), -a): the result is fed back with
\* the opposite order
Reapply ==
    /\ pc = "done"
    /\ depth = 1
    /\ error = "none"
    /\ Enter(result[1], result[2], Neg(args.a))
    /\ first' = [args |-> args, result |-> result, branch |-> branch]
    /\ depth' = 2

Next ==
    \/ Call
    \/ DifferentiateStep
    \/ IntegrateStep
    \/ Return
    \/ Reapply

Spec == Init /\ [][Next]_vars

\* ---- vocabulary of the properties ----
\* x is one of the integers -1, -2, -3, ...
NegInt(x) == \E m \in 1..(2 * (MaxPow + MaxOrd) + 2) : x = [n |-> -m, d |-> 1, s |-> 0]
\* x is one of the integers 0, 1, 2, ...
NonNegInt(x) == \E m \in 0..(2 * (MaxPow + MaxOrd) + 2) : x = [n |-> m, d |-> 1, s |-> 0]
\* x is one of the integers 0, -1, -2, ...
NonPosInt(x) == x = Zero \/ NegInt(x)
AnyInt(x) == NegInt(x) \/ NonNegInt(x)
Less(x, y) == x.n * y.d < y.n * x.d
Returned == pc = "done" /\ error = "none"

RECURSIVE Fact(_)
Fact(m) == IF m <= 0 THEN 1 ELSE m * Fact(m - 1)
\* p * (p-1) * ... * (p-j+1)
RECURSIVE FallingProd(_, _)
FallingProd(p, j) == IF j <= 0 THEN 1 ELSE p * FallingProd(p - 1, j - 1)
\* (p+1) * (p+2) * ... * (p+j)
RECURSIVE RisingProd(_, _)
RisingProd(p, j) == IF j <= 0 THEN 1 ELSE (p + 1) * RisingProd(p + 1, j - 1)

\* C1: in the both-negative-integers branch the loop performs |a| sequential
\* single-order steps: after i steps of differentiation the running state is
\* (const * power*(power-1)*...*(power-i+1), power - i), after i steps of
\* integration it is (const / ((power+1)*...*(power+i)), power + i), and the
\* value returned is the state after exactly |a| steps, with power - a as
\* its power.
C1_SequentialSteps ==
    branch = "integer" =>
        /\ AnyInt(args.power) /\ AnyInt(args.a)
        /\ n = Abs(args.a.n)
        /\ i <= n
        /\ error = "none"
        /\ IF args.a.n >= 0
           THEN /\ power = R(args.power.n - i, 1)
                /\ const = Mul(args.const, R(FallingProd(args.power.n, i), 1))
           ELSE /\ power = R(args.power.n + i, 1)
                /\ const = Div(args.const, R(RisingProd(args.power.n, i), 1))
        /\ pc = "done" =>
              /\ i = n
              /\ result = <<const, power>>
              /\ result[2] = Sub(args.power, args.a)
C1_Witness ==
    /\ Returned /\ branch = "integer" /\ depth = 1
    /\ args.a = R(-2, 1) /\ args.const = One /\ i = 2

\* C2: in the general branch neither Gamma argument, power + 1 nor
\* power - a + 1, is a non-positive integer, and no domain error is raised.
C2_NoGammaPole ==
    branch = "general" =>
        /\ ~NonPosInt(Add(args.power, One))
        /\ ~NonPosInt(Add(Sub(args.power, args.a), One))
        /\ error # "ValueError"
C2_Witness ==
    /\ Returned /\ branch = "general"
    /\ args.power = R(-3, 2) /\ args.a = R(-2, 1)

\* C3 as stated: analytical_frac_diff(1, -1, 1) takes the placeholder branch
\* and returns (0.0, 0.0).
IsCall(c, k, o) ==
    /\ depth = 1 /\ pc = "done"
    /\ args = [const |-> c, power |-> k, a |-> o]
C3_Original ==
    IsCall(One, R(-1, 1), One) =>
        branch = "placeholder" /\ error = "none" /\ result = <<Zero, Zero>>
\* C3 amended: analytical_frac_diff(1, -1, 1) takes the both-negative-integers
\* branch (-1 and -2) and returns (-1, -2), one differentiation step.
C3_IntegerBranch ==
    IsCall(One, R(-1, 1), One) =>
        branch = "integer" /\ error = "none" /\ result = <<R(-1, 1), R(-2, 1)>>
C3_Witness == IsCall(One, R(-1, 1), One)

\* C4: for a non-negative integer power k and an integer order a <= k the
\* call returns (c * k!/(k-a)!, k - a); (1, 3, 2) gives (6, 1) and
\* (1, 2, -1) gives (1/3, 3).
C4_PowerRule ==
    /\ (pc = "done" /\ NonNegInt(args.power) /\ AnyInt(args.a)
          /\ args.a.n <= args.power.n) =>
          /\ error = "none"
          /\ result = <<Mul(args.const, R(Fact(args.power.n),
                                          Fact(args.power.n - args.a.n))),
                        R(args.power.n - args.a.n, 1)>>
    /\ IsCall(One, R(3, 1), R(2, 1)) => result = <<R(6, 1), One>>
    /\ IsCall(One, R(2, 1), R(-1, 1)) => result = <<R(1, 3), R(3, 1)>>
C4_Witness ==
    /\ IsCall(One, R(3, 1), R(2, 1))
    /\ branch = "general" /\ result = <<R(6, 1), One>>

\* C5: when neither k nor k - a is a negative integer, applying the function
\* with order a and then applying it to the result with order -a returns
\* (c, k); both calls take the general branch.
C5_RoundTrip ==
    (depth = 2 /\ pc = "done" /\ ~NegInt(first.args.power)
        /\ ~NegInt(Sub(first.args.power, first.args.a))) =>
        /\ first.branch = "general"
        /\ branch = "general"
        /\ error = "none"
        /\ result = <<first.args.const, first.args.power>>
C5_Witness ==
    /\ depth = 2 /\ Returned /\ branch = "general"
    /\ first.args = [const |-> One, power |-> R(1, 2), a |-> R(3, 1)]
    /\ first.result[1].s = 0 /\ first.result[1] # Zero

\* C6: with order 0 the call returns (c, k), also when k is a negative
\* integer.
C6_Identity ==
    (pc = "done" /\ args.a = Zero) =>
        error = "none" /\ result = <<args.const, args.power>>
C6_Witness ==
    /\ Returned /\ depth = 1 /\ branch = "integer"
    /\ args = [const |-> One, power |-> R(-2, 1), a |-> Zero]

\* C7: if exactly one of power and power - a is a negative integer the call
\* returns (0, 0) whatever const is; if neither is, the returned power is
\* power - a.
C7_PlaceholderAndPower ==
    pc = "done" =>
        LET nk == NegInt(args.power)
            nkma == NegInt(Sub(args.power, args.a))
        IN /\ (nk # nkma) => (error = "none" /\ result = <<Zero, Zero>>)
           /\ (~nk /\ ~nkma) =>
                 (error = "none" /\ result[2] = Sub(args.power, args.a))
C7_Witness ==
    /\ Returned /\ branch = "placeholder"
    /\ args.const # Zero /\ Sub(args.power, args.a) # Zero

\* C8: is_negative_integer(x) is true exactly when x is one of -1, -2, ...;
\* it is true for -2 and false for -5/2, 2 and 0.
C8_Classifier ==
    /\ \A x \in Powers : is_negative_integer(x) <=> NegInt(x)
    /\ is_negative_integer(R(-2, 1))
    /\ ~is_negative_integer(R(-5, 2))
    /\ ~is_negative_integer(R(2, 1))
    /\ ~is_negative_integer(Zero)
    /\ pc # "idle" =>
          /\ neg[1] = NegInt(args.power)
          /\ neg[2] = NegInt(Sub(args.power, args.a))
C8_Witness ==
    /\ pc # "idle" /\ args.power = R(-2, 1) /\ args.a = R(1, 2)
    /\ neg = <<TRUE, FALSE>>

\* C9: in the integration loop the divisor power + 1 is never zero: before
\* each step the running power is below power - a <= -1, and no division by
\* zero happens.
C9_NoZeroDivisor ==
    /\ error # "ZeroDivisionError"
    /\ (pc = "integrate" /\ i < n) =>
          /\ Add(power, One) # Zero
          /\ Less(power, Sub(args.power, args.a))
          /\ ~Less(R(-1, 1), Sub(args.power, args.a))
C9_Witness == pc = "integrate" /\ depth = 1 /\ i = 1 /\ n = 2

\* C10: for a non-negative integer power k and an integer order a > k the
\* call returns a const of 0.
C10_ZeroDerivative ==
    (pc = "done" /\ NonNegInt(args.power) /\ AnyInt(args.a)
        /\ args.a.n > args.power.n) =>
        error = "none" /\ result[1] = Zero
C10_Witness ==
    /\ Returned /\ depth = 1
    /\ args = [const |-> One, power |-> One, a |-> R(3, 1)]

====
